---------------------------- MODULE Spec2Model ----------------------------
(***************************************************************************)
(* Model of the batched log shipping handler of                            *)
(* src/internal/infra/logger/zap.py (class LokiHandler, configure_logging, *)
(* shutdown_loki_handler) and of its use by the lifespan of                *)
(* src/cmd/api/main.py.                                                    *)
(*                                                                         *)
(* Time is discrete, one unit per second.  Every timer is kept relative    *)
(* (time elapsed since the instant the code read time.time() or entered a  *)
(* blocking call) and saturates at the threshold the code compares it to.  *)
(* A thread that can run takes its step before the clock advances: time    *)
(* passes only while every thread is blocked (queue.get with a timeout,    *)
(* the HTTP request, Thread.join) or has nothing to do.                    *)
(***************************************************************************)
EXTENDS Naturals, Sequences, FiniteSets

\* ------------------------------------------------------------ bounds ----
\* batch_size argument of LokiHandler (the application passes 10)
BatchSize == 2
\* number of log records the producers emit in one run
MaxEvents == 3
\* number of calls of ensure_uvicorn_loggers_configured in one run
MaxEnsureCalls == 2
\* number of calls of configure_logging in one run
MaxConfigureCalls == 2

\* ------------------------------------------------- program constants ----
\* shutdown_loki_handler(timeout=10.0) in the lifespan
LifespanDeadline == 10
\* (time.time() - start_time) < 5
WaitWindow == 5
\* self.log_queue.get(timeout=1)
PollTimeout == 1
\* LokiHandler(..., timeout=5): the per-request timeout of requests.post
RequestTimeout == 5

\* logger_names_to_configure of ensure_uvicorn_loggers_configured
logger_names_to_configure ==
    <<"uvicorn", "uvicorn.access", "uvicorn.error", "fastapi">>
LoggerNames == {logger_names_to_configure[i] :
                  i \in 1..Len(logger_names_to_configure)}

\* `self.logs_sent % 10 == 0`
ProgressEvery == 10
\* `time.sleep(1)` after an error in the loop
ErrorSleep == 1

\* LokiHandler objects: the root logger's and one per configured logger
MaxHandlers == 1 + Len(logger_names_to_configure)
HandlerIds == 1..MaxHandlers
EventIds == 1..MaxEvents
\* timeouts handed to shutdown(): scenario D (0 s) and scenario C (2 s)
ShutdownTimeouts == {0, 2}
\* what the try block of _send_to_loki can end in: a response with a status,
\* an exception of requests.post, or `import requests` failing
Outcomes ==
    {"200", "204", "500", "connection_error", "timeout", "import_error"}

VARIABLES
    \* LokiHandler fields, one per handler object
    shutdown_flag,      \* self._shutdown
    log_queue,          \* self.log_queue (FIFO, unbounded)
    logs_sent,          \* self.logs_sent
    logs_failed,        \* self.logs_failed
    \* the worker thread (self.worker_thread) running _process_batch
    pc,                 \* its position; "none" = handler not constructed
    entries,            \* local `entries` (loop) / `remaining_entries` (flush)
    elapsed,            \* time.time() - start_time, saturating at WaitWindow
    waited,             \* time spent in the current blocking call
    response,           \* how requests.post ended, until the result is used
    \* a thread inside shutdown(timeout)
    sd_pc,              \* "idle", "join", "alive", "returned"
    sd_timeout,         \* the timeout argument
    join_elapsed,       \* time spent in worker_thread.join
    forced,             \* the warning branch was taken (thread still alive)
    \* a second thread inside shutdown(timeout) of the same handler
    sd2_pc,             \* "idle", "set", "join", "returned"
    sd2_timeout,        \* its timeout argument
    join2_elapsed,      \* time it has spent in worker_thread.join
    \* environment
    requests_installed, \* whether `import requests` succeeds
    next_id,            \* id of the next log record
    \* clocks observing the Running handler; they stop, at zero, when
    \* shutdown is requested
    age,                \* per record: time since it was enqueued, while pending
    since_emit,         \* time since the last emit
    max_gap,            \* longest time between two consecutive emits
    \* history
    accepted,           \* per handler: records put on the queue, in order
    submitted,          \* per handler: batches handed to _send_to_loki
    posted,             \* per handler: batches for which requests.post was issued
    results,            \* per handler: return values of _send_to_loki
    sd_accepted,        \* per handler: records accepted when _shutdown was set
    sd_queued,          \* per handler: length of the queue at that moment
    emit_raised,        \* an exception left emit towards the log call-site
    notices,            \* per handler and result: a progress notice was logged
    \* the counters of internal/infra/metrics/prometheus.py
    loki_logs_sent_total,   \* per (level, logger) label pair
    loki_logs_failed_total,
    \* the application (main.py) and the logging registry
    app_pc,             \* "import", "configured", "serving", "stopping", "stopped"
    loki_connected,     \* main.py's loki_connected
    loki_handler_instance, \* zap.py's _loki_handler_instance (0 = None)
    ensure_installed,   \* root_logger._ensure_uvicorn_loggers_configured is set
    root_loki,          \* LokiHandlers in root_logger.handlers
    logger_loki,        \* per configured logger: LokiHandlers in its handlers
    ensure_calls,       \* calls of ensure_uvicorn_loggers_configured so far
    configure_calls     \* the calls of configure_logging so far, in order:
                        \* whether Loki was enabled with a url and a job,
                        \* the handler constructed (0 = none), the result

handlerVars == <<shutdown_flag, log_queue, logs_sent, logs_failed>>
workerVars == <<pc, entries, elapsed, waited, response>>
otherVars == <<sd2_pc, sd2_timeout, join2_elapsed>>
callerVars == <<sd_pc, sd_timeout, join_elapsed, forced, otherVars>>
envVars == <<requests_installed, next_id, age, since_emit, max_gap>>
reportVars == <<notices, loki_logs_sent_total, loki_logs_failed_total>>
markVars == <<sd_accepted, sd_queued, emit_raised, reportVars>>
histVars == <<accepted, submitted, posted, results, markVars>>
appVars == <<app_pc, loki_connected, loki_handler_instance, ensure_installed,
             root_loki, logger_loki, ensure_calls, configure_calls>>
vars == <<handlerVars, workerVars, callerVars, envVars, histVars, appVars>>

Max(a, b) == IF a >= b THEN a ELSE b
Min(a, b) == IF a <= b THEN a ELSE b

\* ------------------------------------------- records and wire format ----
\* the attributes of log record e that the handler reads: levelname, name
\* and created (in seconds)
RecordLevelNames == <<"INFO", "WARNING", "ERROR">>
RecordLoggers == <<"main", "api">>
record_levelname(e) == RecordLevelNames[(e % Len(RecordLevelNames)) + 1]
record_name(e) == RecordLoggers[(e % Len(RecordLoggers)) + 1]
record_created(e) == e

\* str.lower() on the level names
lower(level) ==
    CASE level = "INFO" -> "info"
      [] level = "WARNING" -> "warning"
      [] level = "ERROR" -> "error"

\* str(n): the decimal string of n, kept as a tagged number
str(n) == <<"str", n>>

\* int(record.created * 1_000_000_000): Python integers are unbounded, so
\* the product is kept as whole seconds and a nanosecond remainder
timestamp_ns(e) == [seconds |-> record_created(e), nanos |-> 0]

\* LokiHandler._format_log_entry(record): the labels under "stream" and one
\* [timestamp in nanoseconds as a string, message] pair under "values"
format_log_entry(e) ==
    [stream |-> [job |-> "loki_job",
                 application |-> "produto-api",
                 level |-> lower(record_levelname(e)),
                 logger |-> record_name(e)],
     values |-> << <<str(timestamp_ns(e)), <<"message", e>> >> >>]

\* the entry emit puts on the queue for record e: the formatter's output
\* with entry['_record_level'] and entry['_record_logger'] added
QueuedEntry(e) ==
    [k \in DOMAIN format_log_entry(e) \cup {"_record_level", "_record_logger"}
       |-> IF k = "_record_level" THEN lower(record_levelname(e))
           ELSE IF k = "_record_logger" THEN record_name(e)
           ELSE format_log_entry(e)[k]]

\* the label pairs of loki_logs_sent_total that the records can have
Labels ==
    {<<lower(RecordLevelNames[i]), RecordLoggers[j]>> :
        i \in 1..Len(RecordLevelNames), j \in 1..Len(RecordLoggers)}

\* entry.get('_record_level', 'unknown'), entry.get('_record_logger',
\* 'unknown') of the queued entry of record e
EntryLabels(e) ==
    <<QueuedEntry(e)["_record_level"], QueuedEntry(e)["_record_logger"]>>

\* `from internal.infra.metrics.prometheus import ...` succeeds: the module
\* is part of the application
METRICS_AVAILABLE == TRUE

\* payload = {"streams": entries}, the JSON body of the push
Payload(batch) ==
    [streams |-> [i \in 1..Len(batch) |-> QueuedEntry(batch[i])]]

\* ------------------------------------------------------------- Init -----
\* The state right after LokiHandler.__init__ of handler 1: empty queue,
\* zero counters, _shutdown False, worker thread started.
InitHandler(created) ==
    /\ shutdown_flag = [h \in HandlerIds |-> FALSE]
    /\ log_queue = [h \in HandlerIds |-> <<>>]
    /\ logs_sent = [h \in HandlerIds |-> 0]
    /\ logs_failed = [h \in HandlerIds |-> 0]
    /\ pc = [h \in HandlerIds |-> IF h \in created THEN "loop" ELSE "none"]
    /\ entries = [h \in HandlerIds |-> <<>>]
    /\ elapsed = [h \in HandlerIds |-> 0]
    /\ waited = [h \in HandlerIds |-> 0]
    /\ response = [h \in HandlerIds |-> "none"]
    /\ sd_pc = [h \in HandlerIds |-> "idle"]
    /\ sd_timeout = [h \in HandlerIds |-> 0]
    /\ join_elapsed = [h \in HandlerIds |-> 0]
    /\ forced = [h \in HandlerIds |-> FALSE]
    /\ sd2_pc = [h \in HandlerIds |-> "idle"]
    /\ sd2_timeout = [h \in HandlerIds |-> 0]
    /\ join2_elapsed = [h \in HandlerIds |-> 0]
    /\ accepted = [h \in HandlerIds |-> <<>>]
    /\ submitted = [h \in HandlerIds |-> <<>>]
    /\ posted = [h \in HandlerIds |-> <<>>]
    /\ results = [h \in HandlerIds |-> <<>>]
    /\ sd_accepted = [h \in HandlerIds |-> 0]
    /\ sd_queued = [h \in HandlerIds |-> 0]
    /\ emit_raised = FALSE
    /\ notices = [h \in HandlerIds |-> <<>>]
    /\ loki_logs_sent_total = [l \in Labels |-> 0]
    /\ loki_logs_failed_total = 0

InitEnv ==
    /\ requests_installed \in BOOLEAN
    /\ next_id = 1
    /\ age = [e \in EventIds |-> 0]
    /\ since_emit = 0
    /\ max_gap = 0

\* main.py has run configure_logging with Loki enabled: handler 1 is on the
\* root logger and is the global instance; the lifespan has not started.
InitConfigured ==
    /\ app_pc = "configured"
    /\ loki_connected = TRUE
    /\ loki_handler_instance = 1
    /\ ensure_installed = TRUE
    /\ root_loki = {1}
    /\ logger_loki = [n \in LoggerNames |-> {}]
    /\ ensure_calls = 0
    /\ configure_calls = <<[wanted |-> TRUE, created |-> 1,
                            result |-> <<TRUE, 1>>]>>

Init == InitHandler({1}) /\ InitEnv /\ InitConfigured

\* ------------------------------------------------ the sender logger -----
\* `self.sender_logger.propagate = False`
sender_propagate == FALSE

\* the LokiHandlers among sender_logger.handlers: __init__ adds a
\* StreamHandler(sys.stdout) and nothing else
SenderLokiHandlers == {}

\* the record of a message the handler logs about itself
DiagnosticId == 0

\* mutant: the sender logger propagates to the root logger
SenderTargetsPropagate == SenderLokiHandlers \cup root_loki

\* the LokiHandlers that a record logged on sender_logger reaches: those of
\* the logger itself and, if it propagates, those of its parent, the root
SenderTargets ==
    SenderLokiHandlers \cup (IF sender_propagate THEN root_loki ELSE {})

\* the queues after n calls of self.sender_logger.info/warning/error: each
\* LokiHandler the record reaches has its emit called with it
SenderLog(n) ==
    [h \in HandlerIds |->
       IF h \in SenderTargets
       THEN log_queue[h] \o [i \in 1..n |-> DiagnosticId]
       ELSE log_queue[h]]

\* ------------------------------------------------------------- emit -----
\* LokiHandler.emit: format the record and put_nowait it on the queue.  The
\* queue is unbounded, so put_nowait never raises Full; emit does not read
\* self._shutdown.
emit(h) ==
    /\ pc[h] # "none"
    /\ next_id <= MaxEvents
    /\ log_queue' = [log_queue EXCEPT ![h] = Append(@, next_id)]
    /\ accepted' = [accepted EXCEPT ![h] = Append(@, next_id)]
    /\ age' = [age EXCEPT ![next_id] = 0]
    /\ max_gap' = IF next_id = 1 \/ shutdown_flag[h] THEN max_gap
                  ELSE Max(max_gap, since_emit)
    /\ since_emit' = IF shutdown_flag[h] THEN since_emit ELSE 0
    /\ next_id' = next_id + 1
    /\ UNCHANGED <<shutdown_flag, logs_sent, logs_failed, workerVars,
                   callerVars, requests_installed, submitted, posted, results,
                   markVars>>

\* mutant: emit without its try/except, the exception reaches the caller
emitExceptRaises(h) ==
    /\ pc[h] # "none"
    /\ next_id <= MaxEvents
    /\ next_id' = next_id + 1
    /\ emit_raised' = TRUE
    /\ UNCHANGED <<handlerVars, workerVars, callerVars, requests_installed,
                   age, since_emit, max_gap, accepted, submitted, posted,
                   results, sd_accepted, sd_queued, reportVars>>

\* emit, `except Exception as e:`: formatting the record raised inside the
\* try block (record.getMessage() of a record whose arguments do not fit its
\* format string); the error is logged on sender_logger, the record is not
\* enqueued and emit returns normally.
emitExcept(h) ==
    /\ pc[h] # "none"
    /\ next_id <= MaxEvents
    /\ next_id' = next_id + 1
    /\ log_queue' = SenderLog(1)
    /\ UNCHANGED <<shutdown_flag, logs_sent, logs_failed, workerVars, callerVars, requests_installed,
                   age, since_emit, max_gap, histVars>>

\* --------------------------------------------------- _process_batch -----
\* mutant: the `if entries:` guard dropped
HasEntriesAlways(batch) == TRUE

\* `if entries:` in _process_batch, `if remaining_entries:` in the flush
HasEntries(batch) == Len(batch) > 0

\* the guard of _send_to_loki: `if not entries: return True`
NotEntries(batch) == Len(batch) = 0

\* mutant: the loop stops collecting after the first entry
InnerConditionSingle(h) ==
    /\ Len(entries[h]) < 1
    /\ elapsed[h] < WaitWindow
    /\ ~shutdown_flag[h]

\* mutant: `<=` for `<`, one entry too many per batch
InnerConditionOffByOne(h) ==
    /\ Len(entries[h]) <= BatchSize
    /\ elapsed[h] < WaitWindow
    /\ ~shutdown_flag[h]

\* len(entries) < self.batch_size and (time.time() - start_time) < 5
\*   and not self._shutdown
InnerCondition(h) ==
    /\ Len(entries[h]) < BatchSize
    /\ elapsed[h] < WaitWindow
    /\ ~shutdown_flag[h]

\* A batch closed while the handler is Running, below batch_size, less than
\* WaitWindow after its first entry was enqueued.
Early(h, batch) ==
    /\ ~shutdown_flag[h]
    /\ Len(batch) < BatchSize
    /\ Len(batch) > 0
    /\ age[batch[1]] < WaitWindow

\* The call self._send_to_loki(batch): the batch is handed over; requests.post
\* is issued unless the batch is empty (`if not entries: return True`) or
\* `import requests` fails.
SendToLoki(h, batch, src) ==
    /\ submitted' = [submitted EXCEPT
                       ![h] = Append(@, [entries |-> batch, src |-> src,
                                         early |-> Early(h, batch),
                                         draining |-> shutdown_flag[h]])]
    /\ posted' = [posted EXCEPT
                    ![h] = IF ~NotEntries(batch) /\ requests_installed
                           THEN Append(@, batch) ELSE @]
    /\ age' = [e \in EventIds |->
                 IF \E i \in 1..Len(batch) : batch[i] = e THEN 0 ELSE age[e]]

\* `if entries:` after the collecting loop: send, or go on to the exit test.
AfterCollect(h, batch) ==
    IF HasEntries(batch)
    THEN /\ SendToLoki(h, batch, "loop")
         /\ pc' = [pc EXCEPT ![h] = "post"]
         /\ waited' = [waited EXCEPT ![h] = 0]
    ELSE /\ pc' = [pc EXCEPT ![h] = "check_exit"]
         /\ waited' = [waited EXCEPT ![h] = 0]
         /\ UNCHANGED <<submitted, posted, age>>

\* mutant: `while True:`, the loop is left only by the `break`
WorkerLoopForever(h) ==
    /\ pc[h] = "loop"
    /\ pc' = [pc EXCEPT ![h] = "inner"]
    /\ entries' = [entries EXCEPT ![h] = <<>>]
    /\ elapsed' = [elapsed EXCEPT ![h] = 0]
    /\ UNCHANGED <<handlerVars, waited, response, callerVars, envVars, histVars>>

\* mutant: the worker returns when it sees the flag, without the final flush
WorkerLoopNoFlush(h) ==
    /\ pc[h] = "loop"
    /\ IF shutdown_flag[h]
       THEN pc' = [pc EXCEPT ![h] = "done"]
       ELSE pc' = [pc EXCEPT ![h] = "inner"]
    /\ entries' = [entries EXCEPT ![h] = <<>>]
    /\ elapsed' = [elapsed EXCEPT ![h] = 0]
    /\ UNCHANGED <<handlerVars, waited, response, callerVars, envVars, histVars>>

\* `while not self._shutdown:` then `entries = []; start_time = time.time()`
WorkerLoop(h) ==
    /\ pc[h] = "loop"
    /\ IF shutdown_flag[h]
       THEN pc' = [pc EXCEPT ![h] = "flush"]
       ELSE pc' = [pc EXCEPT ![h] = "inner"]
    /\ entries' = [entries EXCEPT ![h] = <<>>]
    /\ elapsed' = [elapsed EXCEPT ![h] = 0]
    /\ UNCHANGED <<handlerVars, waited, response, callerVars, envVars, histVars>>

\* the test of the inner `while`
WorkerInner(h) ==
    /\ pc[h] = "inner"
    /\ IF InnerCondition(h)
       THEN /\ pc' = [pc EXCEPT ![h] = "get"]
            /\ waited' = [waited EXCEPT ![h] = 0]
            /\ UNCHANGED <<submitted, posted, age>>
       ELSE AfterCollect(h, entries[h])
    /\ UNCHANGED <<handlerVars, entries, elapsed, response, callerVars,
                   requests_installed, next_id, since_emit, max_gap,
                   accepted, results, markVars>>

\* mutant: a LIFO queue
DequeueLast(q) == <<q[Len(q)], SubSeq(q, 1, Len(q) - 1)>>

\* Queue.get: the head of the FIFO queue and the rest
Dequeue(q) == <<Head(q), Tail(q)>>

\* entry = self.log_queue.get(timeout=1); entries.append(entry)
WorkerGetItem(h) ==
    /\ pc[h] = "get"
    /\ log_queue[h] # <<>>
    /\ entries' = [entries EXCEPT ![h] = Append(@, Dequeue(log_queue[h])[1])]
    /\ log_queue' = [log_queue EXCEPT ![h] = Dequeue(log_queue[h])[2]]
    /\ pc' = [pc EXCEPT ![h] = "inner"]
    /\ waited' = [waited EXCEPT ![h] = 0]
    /\ UNCHANGED <<shutdown_flag, logs_sent, logs_failed, elapsed, response,
                   callerVars, envVars, histVars>>

\* get raises Empty after PollTimeout: `except: break`
WorkerGetEmpty(h) ==
    /\ pc[h] = "get"
    /\ log_queue[h] = <<>>
    /\ waited[h] >= PollTimeout
    /\ AfterCollect(h, entries[h])
    /\ UNCHANGED <<handlerVars, entries, elapsed, response, callerVars,
                   requests_installed, next_id, since_emit, max_gap,
                   accepted, results, markVars>>

\* mutant: every response counts as delivered, whatever its status
SendResultAnyStatus(batch, outcome) ==
    IF NotEntries(batch) THEN TRUE
    ELSE outcome \in {"200", "204", "500"}

\* _send_to_loki's return value for one outcome of the try block
SendResult(batch, outcome) ==
    IF NotEntries(batch) THEN TRUE
    ELSE IF ~requests_installed THEN FALSE
    ELSE outcome \in {"200", "204"}

\* which outcomes the try block can have now
OutcomePossible(h, outcome) ==
    IF NotEntries(entries[h]) THEN outcome = "200"
    ELSE IF ~requests_installed THEN outcome = "import_error"
    ELSE /\ outcome # "import_error"
         /\ outcome = "timeout" <=> waited[h] >= RequestTimeout

\* requests.post returns a response or raises (or was never called: empty
\* batch, `import requests` failed); the worker is back in _send_to_loki
WorkerPostReturn(h) ==
    /\ pc[h] \in {"post", "flush_post"}
    /\ \E outcome \in Outcomes :
         /\ OutcomePossible(h, outcome)
         /\ response' = [response EXCEPT ![h] = outcome]
    /\ pc' = [pc EXCEPT ![h] = IF pc[h] = "post" THEN "sent" ELSE "flush_sent"]
    /\ waited' = [waited EXCEPT ![h] = 0]
    /\ UNCHANGED <<handlerVars, entries, elapsed, callerVars, envVars,
                   histVars>>

\* mutant: logs_failed counts consecutive failures, a success resets it
WorkerSendReturnReset(h) ==
    /\ pc[h] \in {"sent", "flush_sent"}
    /\ LET ok == SendResult(entries[h], response[h]) IN
         /\ logs_sent' = [logs_sent EXCEPT
                            ![h] = IF ok THEN @ + Len(entries[h]) ELSE @]
         /\ logs_failed' = [logs_failed EXCEPT
                              ![h] = IF ok THEN 0 ELSE @ + Len(entries[h])]
         /\ results' = [results EXCEPT ![h] = Append(@, ok)]
    /\ pc' = [pc EXCEPT ![h] = IF pc[h] = "sent" THEN "check_exit" ELSE "done"]
    /\ response' = [response EXCEPT ![h] = "none"]
    /\ UNCHANGED <<shutdown_flag, log_queue, entries, elapsed, waited,
                   callerVars, envVars, accepted, submitted, posted, markVars>>

\* mutant: `else: pass`, a failed batch is not counted
WorkerSendReturnSentOnly(h) ==
    /\ pc[h] \in {"sent", "flush_sent"}
    /\ LET ok == SendResult(entries[h], response[h]) IN
         /\ logs_sent' = [logs_sent EXCEPT
                            ![h] = IF ok THEN @ + Len(entries[h]) ELSE @]
         /\ results' = [results EXCEPT ![h] = Append(@, ok)]
    /\ pc' = [pc EXCEPT ![h] = IF pc[h] = "sent" THEN "check_exit" ELSE "done"]
    /\ response' = [response EXCEPT ![h] = "none"]
    /\ UNCHANGED <<shutdown_flag, log_queue, logs_failed, entries, elapsed,
                   waited, callerVars, envVars, accepted, submitted, posted,
                   markVars>>

\* mutant: a failed batch is put back on the queue to be sent again
WorkerSendReturnRequeue(h) ==
    /\ pc[h] \in {"sent", "flush_sent"}
    /\ LET ok == SendResult(entries[h], response[h]) IN
         /\ logs_sent' = [logs_sent EXCEPT
                            ![h] = IF ok THEN @ + Len(entries[h]) ELSE @]
         /\ logs_failed' = [logs_failed EXCEPT
                              ![h] = IF ok THEN @ ELSE @ + Len(entries[h])]
         /\ log_queue' = [log_queue EXCEPT
                            ![h] = IF ok THEN @ ELSE @ \o entries[h]]
         /\ results' = [results EXCEPT ![h] = Append(@, ok)]
    /\ pc' = [pc EXCEPT ![h] = IF pc[h] = "sent" THEN "check_exit" ELSE "done"]
    /\ response' = [response EXCEPT ![h] = "none"]
    /\ UNCHANGED <<shutdown_flag, entries, elapsed, waited,
                   callerVars, envVars, accepted, submitted, posted, markVars>>

\* `if self.logs_sent % 10 == 0 or len(entries) > 0:` after a delivery of the
\* loop, with logs_sent already increased
NoticeCondition(sent, batch) == sent % ProgressEvery = 0 \/ Len(batch) > 0

\* number of entries of the batch with label pair l
CountLabel(batch, l) ==
    Cardinality({i \in 1..Len(batch) : EntryLabels(batch[i]) = l})

\* _send_to_loki returns: `self.logs_sent += len(entries)` or
\* `self.logs_failed += len(entries)`, in the loop and in the flush alike.
\* On success loki_logs_sent_total is incremented for each entry, in the loop
\* and in the flush; the loop then logs the progress notice.  On failure the
\* loop, and only the loop, adds len(entries) to loki_logs_failed_total.
WorkerSendReturn(h) ==
    /\ pc[h] \in {"sent", "flush_sent"}
    /\ LET ok == SendResult(entries[h], response[h])
           inLoop == pc[h] = "sent"
           sent == IF ok THEN logs_sent[h] + Len(entries[h])
                   ELSE logs_sent[h]
           notice == ok /\ inLoop /\ NoticeCondition(sent, entries[h])
       IN
         /\ logs_sent' = [logs_sent EXCEPT ![h] = sent]
         /\ logs_failed' = [logs_failed EXCEPT
                              ![h] = IF ok THEN @ ELSE @ + Len(entries[h])]
         /\ results' = [results EXCEPT ![h] = Append(@, ok)]
         /\ loki_logs_sent_total' =
              [l \in Labels |->
                 IF ok /\ METRICS_AVAILABLE
                 THEN loki_logs_sent_total[l] + CountLabel(entries[h], l)
                 ELSE loki_logs_sent_total[l]]
         /\ loki_logs_failed_total' =
              IF ~ok /\ inLoop /\ METRICS_AVAILABLE
              THEN loki_logs_failed_total + Len(entries[h])
              ELSE loki_logs_failed_total
         /\ notices' = [notices EXCEPT ![h] = Append(@, notice)]
         /\ log_queue' = SenderLog((IF ok THEN 0 ELSE 1)
                                   + (IF notice THEN 1 ELSE 0)
                                   + (IF inLoop THEN 0 ELSE 1))
    /\ pc' = [pc EXCEPT ![h] = IF pc[h] = "sent" THEN "check_exit" ELSE "done"]
    /\ response' = [response EXCEPT ![h] = "none"]
    /\ UNCHANGED <<shutdown_flag, entries, elapsed, waited,
                   callerVars, envVars, accepted, submitted, posted,
                   sd_accepted, sd_queued, emit_raised>>

\* mutant: the loop without its try/except, the exception ends the thread
WorkerRaiseDies(h) ==
    /\ pc[h] = "sent"
    /\ pc' = [pc EXCEPT ![h] = "done"]
    /\ response' = [response EXCEPT ![h] = "none"]
    /\ UNCHANGED <<handlerVars, entries, elapsed, waited, callerVars, envVars,
                   histVars>>

\* _send_to_loki has returned and the counter is updated; then a call of the
\* try block raises: loki_logs_sent_total.labels(...).inc(),
\* loki_logs_failed_total.inc(...) or the progress notice.  `except Exception
\* as e:` catches it: `if not self._shutdown:` the error is logged and the
\* thread sleeps; then the `while not self._shutdown` test is next.
WorkerRaise(h) ==
    /\ pc[h] = "sent"
    /\ LET ok == SendResult(entries[h], response[h]) IN
         /\ logs_sent' = [logs_sent EXCEPT
                            ![h] = IF ok THEN @ + Len(entries[h]) ELSE @]
         /\ logs_failed' = [logs_failed EXCEPT
                              ![h] = IF ok THEN @ ELSE @ + Len(entries[h])]
         /\ results' = [results EXCEPT ![h] = Append(@, ok)]
         /\ notices' = [notices EXCEPT ![h] = Append(@, FALSE)]
         /\ log_queue' = SenderLog((IF ok THEN 0 ELSE 1)
                                   + (IF shutdown_flag[h] THEN 0 ELSE 1))
    /\ pc' = [pc EXCEPT ![h] = IF shutdown_flag[h] THEN "loop" ELSE "sleep"]
    /\ waited' = [waited EXCEPT ![h] = 0]
    /\ response' = [response EXCEPT ![h] = "none"]
    /\ UNCHANGED <<shutdown_flag, entries, elapsed, callerVars, envVars,
                   accepted, submitted, posted, sd_accepted, sd_queued,
                   emit_raised, loki_logs_sent_total, loki_logs_failed_total>>

\* time.sleep(1) returns
WorkerSleepReturn(h) ==
    /\ pc[h] = "sleep"
    /\ waited[h] >= ErrorSleep
    /\ pc' = [pc EXCEPT ![h] = "loop"]
    /\ waited' = [waited EXCEPT ![h] = 0]
    /\ UNCHANGED <<handlerVars, entries, elapsed, response, callerVars,
                   envVars, histVars>>

\* `if self._shutdown and self.log_queue.empty(): break`
WorkerCheckExit(h) ==
    /\ pc[h] = "check_exit"
    /\ IF shutdown_flag[h] /\ log_queue[h] = <<>>
       THEN /\ pc' = [pc EXCEPT ![h] = "flush"]
            /\ entries' = [entries EXCEPT ![h] = <<>>]
       ELSE /\ pc' = [pc EXCEPT ![h] = "loop"]
            /\ UNCHANGED entries
    /\ elapsed' = [elapsed EXCEPT ![h] = 0]
    /\ UNCHANGED <<handlerVars, waited, response, callerVars, envVars, histVars>>

\* ---------------------------------------------- _flush_remaining_logs ----
\* `while not self.log_queue.empty(): remaining_entries.append(get_nowait())`
WorkerFlushGet(h) ==
    /\ pc[h] = "flush"
    /\ log_queue[h] # <<>>
    /\ entries' = [entries EXCEPT ![h] = Append(@, Dequeue(log_queue[h])[1])]
    /\ log_queue' = [log_queue EXCEPT ![h] = Dequeue(log_queue[h])[2]]
    /\ UNCHANGED <<shutdown_flag, logs_sent, logs_failed, pc, elapsed, waited,
                   response, callerVars, envVars, histVars>>

\* the queue is empty: `if remaining_entries:` send them all in one batch
WorkerFlushSend(h) ==
    /\ pc[h] = "flush"
    /\ log_queue[h] = <<>>
    /\ IF HasEntries(entries[h])
       THEN /\ SendToLoki(h, entries[h], "flush")
            /\ pc' = [pc EXCEPT ![h] = "flush_post"]
       ELSE /\ pc' = [pc EXCEPT ![h] = "done"]
            /\ UNCHANGED <<submitted, posted, age>>
    /\ waited' = [waited EXCEPT ![h] = 0]
    /\ log_queue' = SenderLog(1)
    /\ UNCHANGED <<shutdown_flag, logs_sent, logs_failed, entries, elapsed, response, callerVars,
                   requests_installed, next_id, since_emit, max_gap,
                   accepted, results, markVars>>

\* --------------------------------------------------------- shutdown -----
\* mutant: shutdown sends what is queued itself, from the caller's thread
shutdownSends(h, timeout) ==
    /\ pc[h] # "none"
    /\ sd_pc[h] \in {"idle", "returned"}
    /\ ~shutdown_flag[h]
    /\ shutdown_flag' = [shutdown_flag EXCEPT ![h] = TRUE]
    /\ sd_pc' = [sd_pc EXCEPT ![h] = "join"]
    /\ sd_timeout' = [sd_timeout EXCEPT ![h] = timeout]
    /\ join_elapsed' = [join_elapsed EXCEPT ![h] = 0]
    /\ sd_accepted' = [sd_accepted EXCEPT ![h] = Len(accepted[h])]
    /\ sd_queued' = [sd_queued EXCEPT ![h] = Len(log_queue[h])]
    /\ SendToLoki(h, log_queue[h], "flush")
    /\ log_queue' = [log_queue EXCEPT ![h] = <<>>]
    /\ UNCHANGED <<logs_sent, logs_failed, workerVars, forced, otherVars,
                   requests_installed, next_id, since_emit, max_gap, accepted,
                   results, emit_raised, reportVars>>

\* mutant: a call on a handler that is shut down clears the flag
shutdownToggle(h, timeout) ==
    /\ pc[h] # "none"
    /\ sd_pc[h] \in {"idle", "returned"}
    /\ IF shutdown_flag[h]
       THEN /\ shutdown_flag' = [shutdown_flag EXCEPT ![h] = FALSE]
            /\ UNCHANGED <<sd_pc, sd_timeout, join_elapsed>>
       ELSE /\ shutdown_flag' = [shutdown_flag EXCEPT ![h] = TRUE]
            /\ sd_pc' = [sd_pc EXCEPT ![h] = "join"]
            /\ sd_timeout' = [sd_timeout EXCEPT ![h] = timeout]
            /\ join_elapsed' = [join_elapsed EXCEPT ![h] = 0]
    /\ UNCHANGED <<log_queue, logs_sent, logs_failed, workerVars, forced,
                   otherVars, envVars, histVars>>

\* `if self._shutdown: return`, else `self._shutdown = True` and join
shutdown(h, timeout) ==
    /\ pc[h] # "none"
    /\ sd_pc[h] \in {"idle", "returned"}
    /\ IF shutdown_flag[h]
       THEN UNCHANGED <<shutdown_flag, sd_pc, sd_timeout, join_elapsed,
                        sd_accepted, sd_queued>>
       ELSE /\ shutdown_flag' = [shutdown_flag EXCEPT ![h] = TRUE]
            /\ sd_pc' = [sd_pc EXCEPT ![h] = "join"]
            /\ sd_timeout' = [sd_timeout EXCEPT ![h] = timeout]
            /\ join_elapsed' = [join_elapsed EXCEPT ![h] = 0]
            /\ sd_accepted' = [sd_accepted EXCEPT ![h] = Len(accepted[h])]
            /\ sd_queued' = [sd_queued EXCEPT ![h] = Len(log_queue[h])]
    /\ IF shutdown_flag[h]
       THEN UNCHANGED <<age, since_emit, max_gap>>
       ELSE /\ age' = [e \in EventIds |-> 0]
            /\ since_emit' = 0
            /\ max_gap' = 0
    /\ log_queue' = IF shutdown_flag[h] THEN log_queue ELSE SenderLog(1)
    /\ UNCHANGED <<logs_sent, logs_failed, workerVars, forced,
                   otherVars, requests_installed, next_id, accepted, submitted,
                   posted, results, emit_raised, reportVars>>

\* self.worker_thread.join(timeout=timeout) returns
ShutdownJoinReturn(h) ==
    /\ sd_pc[h] = "join"
    /\ pc[h] = "done" \/ join_elapsed[h] >= sd_timeout[h]
    /\ sd_pc' = [sd_pc EXCEPT ![h] = "alive"]
    /\ UNCHANGED <<handlerVars, workerVars, sd_timeout, join_elapsed, forced,
                   otherVars, envVars, histVars>>

\* mutant: success is reported whatever is_alive() says
ShutdownReportSuccess(h) ==
    /\ sd_pc[h] = "alive"
    /\ forced' = [forced EXCEPT ![h] = FALSE]
    /\ sd_pc' = [sd_pc EXCEPT ![h] = "returned"]
    /\ UNCHANGED <<handlerVars, workerVars, sd_timeout, join_elapsed,
                   otherVars, envVars, histVars>>

\* `if self.worker_thread.is_alive():` warning (forced), else success
ShutdownReport(h) ==
    /\ sd_pc[h] = "alive"
    /\ forced' = [forced EXCEPT ![h] = pc[h] # "done"]
    /\ sd_pc' = [sd_pc EXCEPT ![h] = "returned"]
    /\ log_queue' = SenderLog(1)
    /\ UNCHANGED <<shutdown_flag, logs_sent, logs_failed, workerVars, sd_timeout, join_elapsed,
                   otherVars, envVars, histVars>>

\* ------------------------------------- shutdown, from a second thread ----
\* mutant: shutdown without `if self._shutdown: return`
OtherShutdownTestNoGuard(h, timeout) ==
    /\ pc[h] # "none"
    /\ sd2_pc[h] \in {"idle", "returned"}
    /\ sd2_pc' = [sd2_pc EXCEPT ![h] = "set"]
    /\ sd2_timeout' = [sd2_timeout EXCEPT ![h] = timeout]
    /\ UNCHANGED <<handlerVars, workerVars, sd_pc, sd_timeout, join_elapsed,
                   forced, join2_elapsed, envVars, histVars>>

\* Another thread enters shutdown(timeout) of the same handler and reads the
\* flag: `if self._shutdown: return`.  The read and the write of _shutdown
\* are two steps: both threads can find the flag False.
OtherShutdownTest(h, timeout) ==
    /\ pc[h] # "none"
    /\ sd2_pc[h] \in {"idle", "returned"}
    /\ IF shutdown_flag[h]
       THEN /\ sd2_pc' = [sd2_pc EXCEPT ![h] = "returned"]
            /\ UNCHANGED sd2_timeout
       ELSE /\ sd2_pc' = [sd2_pc EXCEPT ![h] = "set"]
            /\ sd2_timeout' = [sd2_timeout EXCEPT ![h] = timeout]
    /\ UNCHANGED <<handlerVars, workerVars, sd_pc, sd_timeout, join_elapsed,
                   forced, join2_elapsed, envVars, histVars>>

\* `self._shutdown = True`, then it enters worker_thread.join(timeout)
OtherShutdownSet(h) ==
    /\ sd2_pc[h] = "set"
    /\ shutdown_flag' = [shutdown_flag EXCEPT ![h] = TRUE]
    /\ sd2_pc' = [sd2_pc EXCEPT ![h] = "join"]
    /\ join2_elapsed' = [join2_elapsed EXCEPT ![h] = 0]
    /\ IF shutdown_flag[h]
       THEN UNCHANGED <<sd_accepted, sd_queued, age, since_emit, max_gap>>
       ELSE /\ sd_accepted' = [sd_accepted EXCEPT ![h] = Len(accepted[h])]
            /\ sd_queued' = [sd_queued EXCEPT ![h] = Len(log_queue[h])]
            /\ age' = [e \in EventIds |-> 0]
            /\ since_emit' = 0
            /\ max_gap' = 0
    /\ log_queue' = SenderLog(1)
    /\ UNCHANGED <<logs_sent, logs_failed, workerVars, sd_pc,
                   sd_timeout, join_elapsed, forced, sd2_timeout,
                   requests_installed, next_id, accepted, submitted, posted,
                   results, emit_raised, reportVars>>

\* its join returns; the is_alive() test only chooses the message logged
OtherJoinReturn(h) ==
    /\ sd2_pc[h] = "join"
    /\ pc[h] = "done" \/ join2_elapsed[h] >= sd2_timeout[h]
    /\ sd2_pc' = [sd2_pc EXCEPT ![h] = "returned"]
    /\ log_queue' = SenderLog(1)
    /\ UNCHANGED <<shutdown_flag, logs_sent, logs_failed, workerVars, sd_pc, sd_timeout, join_elapsed,
                   forced, sd2_timeout, join2_elapsed, envVars, histVars>>

\* ------------------------------------------------------------- time -----
WorkerBlocked(h) ==
    \/ pc[h] \in {"none", "done"}
    \/ pc[h] = "get" /\ log_queue[h] = <<>> /\ waited[h] < PollTimeout
    \/ pc[h] = "sleep" /\ waited[h] < ErrorSleep
    \/ /\ pc[h] \in {"post", "flush_post"}
       /\ ~NotEntries(entries[h]) /\ requests_installed
       /\ waited[h] < RequestTimeout

CallerBlocked(h) ==
    /\ \/ sd_pc[h] \in {"idle", "returned"}
       \/ sd_pc[h] = "join" /\ pc[h] # "done" /\ join_elapsed[h] < sd_timeout[h]
    /\ \/ sd2_pc[h] \in {"idle", "returned"}
       \/ /\ sd2_pc[h] = "join" /\ pc[h] # "done"
          /\ join2_elapsed[h] < sd2_timeout[h]

\* a record is pending while it is in the queue or in the batch being
\* collected of a Running handler
Pending(e) ==
    \E h \in HandlerIds :
        /\ ~shutdown_flag[h]
        /\ \/ \E i \in 1..Len(log_queue[h]) : log_queue[h][i] = e
           \/ /\ pc[h] \in {"inner", "get"}
              /\ \E i \in 1..Len(entries[h]) : entries[h][i] = e

\* one second passes
Tick ==
    /\ \A h \in HandlerIds : WorkerBlocked(h) /\ CallerBlocked(h)
    /\ elapsed' = [h \in HandlerIds |->
                     IF pc[h] \in {"inner", "get", "post", "check_exit"}
                     THEN Min(elapsed[h] + 1, WaitWindow) ELSE elapsed[h]]
    /\ waited' = [h \in HandlerIds |->
                    IF pc[h] = "get" THEN Min(waited[h] + 1, PollTimeout)
                    ELSE IF pc[h] = "sleep"
                    THEN Min(waited[h] + 1, ErrorSleep)
                    ELSE IF pc[h] \in {"post", "flush_post"}
                    THEN Min(waited[h] + 1, RequestTimeout)
                    ELSE waited[h]]
    /\ join_elapsed' = [h \in HandlerIds |->
                          IF sd_pc[h] = "join"
                          THEN Min(join_elapsed[h] + 1, sd_timeout[h])
                          ELSE join_elapsed[h]]
    /\ join2_elapsed' = [h \in HandlerIds |->
                           IF sd2_pc[h] = "join"
                           THEN Min(join2_elapsed[h] + 1, sd2_timeout[h])
                           ELSE join2_elapsed[h]]
    /\ age' = [e \in EventIds |->
                 IF Pending(e) THEN Min(age[e] + 1, WaitWindow) ELSE age[e]]
    /\ since_emit' = IF next_id > 1 /\ \A h \in HandlerIds : ~shutdown_flag[h]
                     THEN Min(since_emit + 1, WaitWindow)
                     ELSE since_emit
    /\ UNCHANGED <<handlerVars, pc, entries, response, sd_pc, sd_timeout,
                   forced, sd2_pc, sd2_timeout, requests_installed, next_id,
                   max_gap, histVars>>

\* ------------------------------------------------------------- Next -----
Worker(h) ==
    \/ WorkerLoop(h)
    \/ WorkerInner(h)
    \/ WorkerGetItem(h)
    \/ WorkerGetEmpty(h)
    \/ WorkerPostReturn(h)
    \/ WorkerSendReturn(h)
    \/ WorkerCheckExit(h)
    \/ WorkerFlushGet(h)
    \/ WorkerFlushSend(h)

\* One handler at work: producers, the worker, a caller of shutdown, time.
Produce == \E h \in HandlerIds : emit(h) /\ UNCHANGED appVars
Work == \E h \in HandlerIds : Worker(h) /\ UNCHANGED appVars
CallShutdown ==
    \E h \in HandlerIds : \E t \in ShutdownTimeouts :
        shutdown(h, t) /\ UNCHANGED appVars
JoinReturns == \E h \in HandlerIds : ShutdownJoinReturn(h) /\ UNCHANGED appVars
Reports == \E h \in HandlerIds : ShutdownReport(h) /\ UNCHANGED appVars
TimePasses == Tick /\ UNCHANGED appVars

Next ==
    \/ Produce
    \/ Work
    \/ CallShutdown
    \/ JoinReturns
    \/ Reports
    \/ TimePasses

Spec == Init /\ [][Next]_vars

\* The threads are scheduled and the clock advances: the worker, a thread
\* inside shutdown and time each take a step that stays possible.  Every
\* request returns: its answer stays possible until it is taken.
Fairness ==
    /\ WF_vars(Work)
    /\ WF_vars(JoinReturns)
    /\ WF_vars(Reports)
    /\ WF_vars(TimePasses)

FairSpec == Init /\ [][Next]_vars /\ Fairness

\* Two threads call shutdown on the handler.
OtherCalls ==
    \E h \in HandlerIds : \E t \in ShutdownTimeouts :
        OtherShutdownTest(h, t) /\ UNCHANGED appVars
OtherSets == \E h \in HandlerIds : OtherShutdownSet(h) /\ UNCHANGED appVars
OtherJoinReturns ==
    \E h \in HandlerIds : OtherJoinReturn(h) /\ UNCHANGED appVars

NextConcurrent ==
    \/ Produce
    \/ Work
    \/ CallShutdown
    \/ JoinReturns
    \/ Reports
    \/ OtherCalls
    \/ OtherSets
    \/ OtherJoinReturns
    \/ TimePasses

ConcurrentSpec == Init /\ [][NextConcurrent]_vars

\* The handler at work with producers whose records can fail to format.
ProduceFails == \E h \in HandlerIds : emitExcept(h) /\ UNCHANGED appVars

NextProducers ==
    \/ Produce
    \/ ProduceFails
    \/ Work
    \/ CallShutdown
    \/ JoinReturns
    \/ Reports
    \/ TimePasses

ProducerSpec == Init /\ [][NextProducers]_vars

\* The handler at work with a metrics sink whose calls can raise.
Raises == \E h \in HandlerIds : WorkerRaise(h) /\ UNCHANGED appVars
SleepReturns == \E h \in HandlerIds : WorkerSleepReturn(h) /\ UNCHANGED appVars

NextFaults ==
    \/ Produce
    \/ Work
    \/ Raises
    \/ SleepReturns
    \/ CallShutdown
    \/ JoinReturns
    \/ Reports
    \/ TimePasses

FaultSpec == Init /\ [][NextFaults]_vars

\* ------------------------------------------- configure_logging, main.py --
\* the process starts: nothing is configured and no handler exists
InitApp ==
    /\ InitHandler({})
    /\ InitEnv
    /\ app_pc = "import"
    /\ loki_connected = FALSE
    /\ loki_handler_instance = 0
    /\ ensure_installed = FALSE
    /\ root_loki = {}
    /\ logger_loki = [n \in LoggerNames |-> {}]
    /\ ensure_calls = 0
    /\ configure_calls = <<>>

\* the LokiHandler objects constructed so far; ids are handed out in order
Constructed == {h \in HandlerIds : pc[h] # "none"}

\* LokiHandler.__init__ for every id in `new`: the fields keep their initial
\* values and the worker thread is started
Construct(new) ==
    pc' = [h \in HandlerIds |-> IF h \in new THEN "loop" ELSE pc[h]]

\* configure_logging(loki_enabled, loki_url, loki_job): the root logger's
\* handlers are removed; with Loki enabled and a url and a job, a LokiHandler
\* is constructed, added to the root logger and kept in
\* _loki_handler_instance, and the function ensure_uvicorn_loggers_configured
\* is stored on the root logger; otherwise _loki_handler_instance is left as
\* it is.  `return loki_connected, _loki_handler_instance`.
configure_logging(loki_enabled, has_url, has_job) ==
    LET wanted == loki_enabled /\ has_url /\ has_job
        new == Cardinality(Constructed) + 1
    IN  /\ IF wanted
           THEN /\ new \in HandlerIds
                /\ Construct({new})
                /\ root_loki' = {new}
                /\ loki_handler_instance' = new
                /\ ensure_installed' = TRUE
           ELSE /\ root_loki' = {}
                /\ UNCHANGED <<pc, loki_handler_instance, ensure_installed>>
        /\ configure_calls' =
             Append(configure_calls,
                    [wanted |-> wanted,
                     created |-> IF wanted THEN new ELSE 0,
                     result |-> <<wanted, loki_handler_instance'>>])
        /\ UNCHANGED <<handlerVars, entries, elapsed, waited, response,
                       callerVars, envVars, histVars, logger_loki,
                       ensure_calls>>

\* main.py at import: `loki_connected, loki_handler = configure_logging(...)`
MainConfigure ==
    /\ app_pc = "import"
    /\ \E e, u, j \in BOOLEAN : configure_logging(e, u, j)
    /\ loki_connected' = configure_calls'[Len(configure_calls')].result[1]
    /\ app_pc' = "configured"

\* a call of configure_logging by any caller, main.py's or a later one
Reconfigure ==
    /\ Len(configure_calls) < MaxConfigureCalls
    /\ \E e, u, j \in BOOLEAN : configure_logging(e, u, j)
    /\ UNCHANGED <<app_pc, loki_connected>>

\* has_loki = any(isinstance(h, LokiHandler) for h in logger_instance.handlers)
HasLoki(name) == logger_loki[name] # {}

\* the configured loggers that get a handler in this call, in list order
ToConfigure ==
    SelectSeq(logger_names_to_configure, LAMBDA n : ~HasLoki(n))

\* position of name n in sequence s
IndexOf(s, n) == CHOOSE i \in 1..Len(s) : s[i] = n

\* mutant: the logger is given the root logger's handler, none is constructed
LoggerHandlerShared(name) == loki_handler_instance

\* configure_logger_for_loki(logger_name): "Cria novo handler do Loki para
\* este logger especifico", the LokiHandler constructed for this logger
LoggerHandler(name) == Cardinality(Constructed) + IndexOf(ToConfigure, name)

\* ensure_uvicorn_loggers_configured(): every logger of
\* logger_names_to_configure without a LokiHandler has its handlers removed
\* and receives the console handler and the handler of LoggerHandler.
EnsureUvicornLoggers ==
    LET names == {ToConfigure[i] : i \in 1..Len(ToConfigure)}
        new == {LoggerHandler(n) : n \in names} \ Constructed
    IN  /\ new \subseteq HandlerIds
        /\ Construct(new)
        /\ logger_loki' = [n \in LoggerNames |->
                             IF n \in names THEN {LoggerHandler(n)}
                             ELSE logger_loki[n]]
        /\ ensure_calls' = ensure_calls + 1

\* lifespan startup: `if loki_connected:` and the root logger has the
\* attribute, call it
LifespanStartup ==
    /\ app_pc = "configured"
    /\ IF loki_connected /\ ensure_installed
       THEN EnsureUvicornLoggers
       ELSE UNCHANGED <<pc, logger_loki, ensure_calls>>
    /\ app_pc' = "serving"
    /\ UNCHANGED <<handlerVars, entries, elapsed, waited, response,
                   callerVars, envVars,
                   histVars, loki_connected, loki_handler_instance,
                   ensure_installed, root_loki, configure_calls>>

\* a further call of root_logger._ensure_uvicorn_loggers_configured()
EnsureAgain ==
    /\ app_pc = "serving"
    /\ ensure_installed
    /\ ensure_calls < MaxEnsureCalls
    /\ EnsureUvicornLoggers
    /\ UNCHANGED <<handlerVars, entries, elapsed, waited, response,
                   callerVars, envVars,
                   histVars, app_pc, loki_connected, loki_handler_instance,
                   ensure_installed, root_loki, configure_calls>>

\* lifespan shutdown: `if loki_connected: shutdown_loki_handler(timeout=10.0)`
\* and in it `if _loki_handler_instance: _loki_handler_instance.shutdown(...)`
LifespanShutdown ==
    /\ app_pc = "serving"
    /\ IF loki_connected /\ loki_handler_instance # 0
       THEN /\ shutdown(loki_handler_instance, LifespanDeadline)
            /\ app_pc' = "stopping"
       ELSE /\ app_pc' = "stopped"
            /\ UNCHANGED <<handlerVars, workerVars, callerVars, envVars,
                           histVars>>
    /\ UNCHANGED <<loki_connected, loki_handler_instance, ensure_installed,
                   root_loki, logger_loki, ensure_calls, configure_calls>>

\* shutdown() has returned: `_loki_handler_instance = None`; the lifespan ends
ShutdownLokiHandlerReturn ==
    /\ app_pc = "stopping"
    /\ sd_pc[loki_handler_instance] = "returned"
    /\ loki_handler_instance' = 0
    /\ app_pc' = "stopped"
    /\ UNCHANGED <<handlerVars, workerVars, callerVars, envVars, histVars,
                   loki_connected, ensure_installed, root_loki, logger_loki,
                   ensure_calls, configure_calls>>

NextApp ==
    \/ MainConfigure
    \/ LifespanStartup
    \/ EnsureAgain
    \/ LifespanShutdown
    \/ ShutdownLokiHandlerReturn
    \/ Work
    \/ JoinReturns
    \/ Reports
    \/ TimePasses

\* The application from process start to the end of the lifespan.
AppSpec == InitApp /\ [][NextApp]_vars

\* configure_logging called repeatedly; the handlers it constructs are at
\* work and can be shut down.
NextReconfigure ==
    \/ Reconfigure
    \/ Work
    \/ CallShutdown
    \/ JoinReturns
    \/ Reports
    \/ TimePasses

ReconfigureSpec == InitApp /\ [][NextReconfigure]_vars

\* ===================================================== properties =======
RECURSIVE Flatten(_)
\* the concatenation of a sequence of sequences
Flatten(ss) == IF ss = <<>> THEN <<>> ELSE Head(ss) \o Flatten(Tail(ss))

IsPrefix(s, t) == Len(s) <= Len(t) /\ SubSeq(t, 1, Len(s)) = s

\* the batches handed to _send_to_loki by handler h, in submission order
Batches(h) == [i \in 1..Len(submitted[h]) |-> submitted[h][i].entries]

\* number of records emitted so far
Emitted == next_id - 1

\* every request so far was answered 200 or 204
AllOk(h) ==
    requests_installed /\ \A i \in 1..Len(results[h]) : results[h][i]

\* nothing queued, nothing being collected, no request in flight
Settled(h) ==
    /\ log_queue[h] = <<>>
    /\ pc[h] \notin {"post", "flush_post", "sent", "flush_sent", "flush"}
    /\ pc[h] \in {"inner", "get"} => entries[h] = <<>>

\* ------------------------------------------------------------------ C1 --
\* C1: for one handler, the batches handed to the delivery call, concatenated
\* in submission order, are at every moment a prefix of the records accepted
\* by emit in queue order (order kept, none twice, none skipped).
C1_SubmittedIsPrefixOfAccepted ==
    \A h \in HandlerIds : IsPrefix(Flatten(Batches(h)), accepted[h])

\* a full loop batch followed by the final flush batch, worker stopped
C1_Witness ==
    /\ pc[1] = "done"
    /\ Len(submitted[1]) = 2
    /\ submitted[1][1].src = "loop" /\ Len(submitted[1][1].entries) = BatchSize
    /\ submitted[1][2].src = "flush"
    /\ Flatten(Batches(1)) = accepted[1]

\* ------------------------------------------------------------------ C2 --
\* C2: every batch submitted for delivery, by the dispatch loop or by the
\* final flush, holds at most batch_size entries.
C2_BatchAtMostBatchSize ==
    \A h \in HandlerIds : \A i \in 1..Len(submitted[h]) :
        Len(submitted[h][i].entries) <= BatchSize

\* ------------------------------------------------------------------ C3 --
\* C3: no empty batch is handed to the delivery call and no HTTP push is
\* issued for an empty batch, also when the queue wait times out with nothing
\* pending and when the final flush finds the queue empty.
C3_NoEmptyBatch ==
    \A h \in HandlerIds :
        /\ \A i \in 1..Len(submitted[h]) : Len(submitted[h][i].entries) >= 1
        /\ \A i \in 1..Len(posted[h]) : Len(posted[h][i]) >= 1

\* the worker stopped after a flush that found the queue empty, having sent
\* a batch from the loop before
C3_Witness ==
    /\ pc[1] = "done"
    /\ entries[1] = <<>>
    /\ Len(posted[1]) = 1
    /\ submitted[1][1].src = "loop"

\* ------------------------------------------------------------------ C4 --
\* C4: while the handler is Running, a batch with fewer than batch_size
\* entries is never submitted before WaitWindow (5 s) has elapsed since its
\* first entry arrived.
C4_NoEarlyPartialBatch ==
    \A h \in HandlerIds : \A i \in 1..Len(submitted[h]) :
        ~submitted[h][i].early

\* ------------------------------------------------------------------ C5 --
\* Exactly one batch was submitted and it holds every record emitted.
OneBatchWithAll(h) == Batches(h) = <<accepted[h]>>

FullBatchesThenRest(h, n) ==
    LET k == Len(submitted[h]) IN
    /\ (k - 1) * BatchSize < n /\ n <= k * BatchSize
    /\ \A i \in 1..(k - 1) : Len(submitted[h][i].entries) = BatchSize
    /\ Len(submitted[h][k].entries) = n - (k - 1) * BatchSize

\* all records emitted have been delivered
AllDelivered(h) ==
    /\ AllOk(h) /\ Settled(h)
    /\ Flatten(Batches(h)) = accepted[h]
    /\ Len(results[h]) = Len(submitted[h])

C7_NoEnqueueAfterShutdown ==
    [][\A h \in HandlerIds :
         shutdown_flag[h] => Len(log_queue'[h]) <= Len(log_queue[h])]_vars

C9_EveryWorkerSignalled ==
    app_pc = "stopped" => \A h \in Constructed : shutdown_flag[h]

\* ----------------------------------------------------------------- C10 --
\* the handlers whose worker thread is running; all push to the endpoint of
\* the one loki_url handed to configure_logging
Live == {h \in HandlerIds : pc[h] \notin {"none", "done"}}

Occurrences(s, e) == Cardinality({k \in 1..Len(s) : s[k] = e})

\* C11: when the worker has stopped, every record that was in the queue or
\* in the pending batch at the moment shutdown was requested (the records
\* accepted until then, less those submitted before) has been submitted for
\* delivery exactly once, and none of them is left in the queue.
C11_DrainCompleteness ==
    \A h \in HandlerIds :
        (shutdown_flag[h] /\ pc[h] = "done") =>
            \A j \in 1..sd_accepted[h] :
                /\ Occurrences(Flatten(Batches(h)), accepted[h][j]) = 1
                /\ Occurrences(log_queue[h], accepted[h][j]) = 0

\* shutdown found batch_size records queued and one more in the pending
\* batch; the worker stopped after a loop batch and the flush batch
C11_Witness ==
    /\ pc[1] = "done"
    /\ sd_accepted[1] = BatchSize + 1
    /\ sd_queued[1] = BatchSize
    /\ Len(submitted[1]) = 2
    /\ submitted[1][1].src = "loop" /\ submitted[1][1].draining
    /\ submitted[1][2].src = "flush"

\* ----------------------------------------------------------------- C12 --
\* C12: shutdown is requested while k records (1 <= k <= batch_size) are in
\* the queue, none dequeued yet and none emitted later, and the sink answers
\* every request with success: when the worker has stopped, the k records
\* have been delivered together, in one single batch.
C12_QueuedDeliveredInOneFinalBatch ==
    ( /\ pc[1] = "done"
      /\ sd_queued[1] \in 1..BatchSize
      /\ sd_accepted[1] = sd_queued[1]
      /\ Emitted = sd_accepted[1]
      /\ AllOk(1) )
    => OneBatchWithAll(1)

\* ----------------------------------------------------------------- C13 --
\* C13: a caller of shutdown(deadline) that has set the flag leaves the join
\* only when the worker has stopped or the deadline has elapsed, no time
\* passes for it in the join beyond either, and when it returns it reports
\* forced exactly if the worker is still alive at that point.
C13_ShutdownWaitsUntilStoppedOrDeadline ==
    [][\A h \in HandlerIds :
         /\ (sd_pc[h] = "join" /\ sd_pc'[h] # "join")
            => (pc[h] = "done" \/ join_elapsed[h] >= sd_timeout[h])
         /\ (sd_pc[h] = "join" /\ TimePasses)
            => (pc[h] # "done" /\ join_elapsed[h] < sd_timeout[h])
         /\ (sd_pc[h] = "alive" /\ sd_pc'[h] = "returned")
            => (forced'[h] <=> pc[h] # "done")]_vars

\* deadline 0 and a sink that has not answered: shutdown has returned with no
\* time spent in the join and reported forced, the request still in flight
C13_Witness ==
    /\ sd_pc[1] = "returned"
    /\ sd_timeout[1] = 0
    /\ join_elapsed[1] = 0
    /\ forced[1]
    /\ pc[1] = "post"

\* ----------------------------------------------------------------- C14 --
\* C14: after shutdown(deadline) has returned as forced, the worker hands no
\* further batch to the delivery call and issues no further request: what is
\* still queued is lost.
C14_NoDeliveryAfterForcedReturn ==
    [][\A h \in HandlerIds :
         (sd_pc[h] = "returned" /\ forced[h])
         => (submitted'[h] = submitted[h] /\ posted'[h] = posted[h])]_vars

\* ----------------------------------------------------------------- C15 --
\* the batches handed to the delivery call after _shutdown was set
DrainingBatches(h) ==
    {i \in 1..Len(submitted[h]) : submitted[h][i].draining}

\* C15: once the shutdown flag is set, the worker waits on at most one
\* delivery call before it stops; stated with the request that may be in
\* flight when the flag is set left out of the count: at most one request is
\* started after the flag was set.
C15_AtMostOneDeliveryWhileDraining ==
    \A h \in HandlerIds :
        requests_installed => Cardinality(DrainingBatches(h)) <= 1

\* ----------------------------------------------------------------- C16 --
\* the fields of handler h, its worker and what it has delivered are the
\* same before and after the step
HandlerUntouched(h) ==
    /\ log_queue'[h] = log_queue[h]
    /\ logs_sent'[h] = logs_sent[h]
    /\ logs_failed'[h] = logs_failed[h]
    /\ pc'[h] = pc[h]
    /\ entries'[h] = entries[h]
    /\ submitted'[h] = submitted[h]
    /\ posted'[h] = posted[h]
    /\ results'[h] = results[h]

\* C16: shutdown is idempotent.  A step of a second shutdown call on the
\* same handler, issued after or concurrently with the first, changes neither
\* the queue, the counters, the worker nor the batches delivered, and never
\* clears the flag; a call that finds the handler already draining returns
\* at once, without a join and without touching the first caller.
C16_SecondShutdownChangesNothing ==
    [][\A h \in HandlerIds :
         /\ sd2_pc'[h] # sd2_pc[h]
            => /\ HandlerUntouched(h)
               /\ shutdown_flag[h] => shutdown_flag'[h]
               /\ sd_pc'[h] = sd_pc[h] /\ forced'[h] = forced[h]
         /\ ( /\ shutdown_flag[h]
              /\ sd2_pc[h] \in {"idle", "returned"}
              /\ sd2_pc'[h] # sd2_pc[h] )
            => /\ sd2_pc'[h] = "returned"
               /\ shutdown_flag'[h]
               /\ sd_accepted'[h] = sd_accepted[h]]_vars

\* a second call has returned while the first caller is still in its join
\* and the worker is draining
C16_Witness ==
    /\ sd_pc[1] = "join"
    /\ sd2_pc[1] = "returned"
    /\ shutdown_flag[1]
    /\ pc[1] = "flush_post"

\* ----------------------------------------------------------------- C17 --
\* C17: the lifecycle of a handler only moves forward.  The shutdown flag,
\* once set, stays set, and once the worker has stopped it stays stopped:
\* nothing is dequeued, no batch is handed to the delivery call, no request
\* is issued and the sent/failed counters keep their values.
C17_LifecycleOnlyForward ==
    [][\A h \in HandlerIds :
         /\ shutdown_flag[h] => shutdown_flag'[h]
         /\ pc[h] = "done"
            => /\ pc'[h] = "done"
               /\ shutdown_flag'[h]
               /\ IsPrefix(log_queue[h], log_queue'[h])
               /\ submitted'[h] = submitted[h]
               /\ posted'[h] = posted[h]
               /\ results'[h] = results[h]
               /\ logs_sent'[h] = logs_sent[h]
               /\ logs_failed'[h] = logs_failed[h]]_vars

\* the worker has stopped, both shutdown calls have returned, and a record
\* emitted since then sits in the queue
C17_Witness ==
    /\ pc[1] = "done"
    /\ sd_pc[1] = "returned"
    /\ sd2_pc[1] = "returned"
    /\ Len(accepted[1]) > sd_accepted[1]
    /\ log_queue[1] # <<>>
    /\ logs_sent[1] + logs_failed[1] = sd_accepted[1]

\* ----------------------------------------------------------------- C18 --
\* C18: the queue is bounded by a fixed capacity and an emit onto a full
\* queue drops the record.  Stated for the most generous capacity that
\* producers of MaxEvents records can exceed: the queue never holds all of
\* MaxEvents records.
C18_QueueBounded ==
    \A h \in HandlerIds : Len(log_queue[h]) < MaxEvents

\* ----------------------------------------------------------------- C19 --
\* C19: emit never blocks on the worker and never raises to its caller.  In
\* every state of the worker of a constructed handler a producer's emit can
\* take its step, and no exception has left emit: a failure inside it is
\* absorbed.
C19_EmitNeverBlocksNorRaises ==
    /\ ~emit_raised
    /\ \A h \in Constructed :
          next_id <= MaxEvents => (ENABLED emit(h) /\ ENABLED emitExcept(h))

\* a record was enqueued while a request to a slow sink was in flight, and
\* another record failed to format and was absorbed
C19_Witness ==
    /\ pc[1] = "post"
    /\ waited[1] > 0
    /\ ~shutdown_flag[1]
    /\ since_emit = 0
    /\ log_queue[1] # <<>>
    /\ Len(accepted[1]) < Emitted

\* ----------------------------------------------------------------- C20 --
\* C20: every delivery attempt of a non-empty batch ends in a boolean result
\* and the worker goes on (nothing is raised): the result is success exactly
\* when the sink answered 200 or 204, and failure for another status, a
\* connection error, a timeout and a missing requests library.
C20_DeliveryOutcomeIsBoolean ==
    [][\A h \in HandlerIds :
         ( /\ pc[h] \in {"sent", "flush_sent"}
           /\ pc'[h] # pc[h]
           /\ ~NotEntries(entries[h]) )
         => /\ pc'[h] \in {"check_exit", "done"}
            /\ Len(results'[h]) = Len(results[h]) + 1
            /\ results'[h][Len(results'[h])] \in BOOLEAN
            /\ results'[h][Len(results'[h])]
                  <=> response[h] \in {"200", "204"}
            /\ response[h] \in Outcomes]_vars

\* one batch was delivered and counted as sent, the next failed and was
\* counted as failed
C20_Witness ==
    /\ pc[1] = "check_exit"
    /\ results[1] = <<TRUE, FALSE>>
    /\ logs_sent[1] >= 1
    /\ logs_failed[1] >= 1

\* ----------------------------------------------------------------- C21 --
RECURSIVE SizeOfResults(_, _, _)
\* total size of the first n batches of handler h whose recorded result is ok
SizeOfResults(h, n, ok) ==
    IF n = 0 THEN 0
    ELSE SizeOfResults(h, n - 1, ok)
         + (IF results[h][n] = ok THEN Len(submitted[h][n].entries) ELSE 0)

\* C21: a batch is attempted at most once.  No record is handed to the
\* delivery call twice, a record that was handed over is never back on the
\* queue, whatever the outcome, and the failed counter is the total size of
\* the batches whose delivery failed.
C21_NoRetry ==
    \A h \in HandlerIds :
        /\ \A e \in EventIds :
              /\ Occurrences(Flatten(Batches(h)), e) <= 1
              /\ Occurrences(Flatten(Batches(h)), e) = 1
                    => Occurrences(log_queue[h], e) = 0
        /\ logs_failed[h] = SizeOfResults(h, Len(results[h]), FALSE)

\* a batch failed, and the worker went on to assemble and deliver the next
\* batch, from other records
C21_Witness ==
    /\ Len(results[1]) = 2
    /\ ~results[1][1] /\ results[1][2]
    /\ logs_failed[1] = Len(submitted[1][1].entries)
    /\ logs_sent[1] = Len(submitted[1][2].entries)
    /\ ~shutdown_flag[1]

\* ----------------------------------------------------------------- C22 --
\* no batch of handler h is being collected, in flight or waiting to be
\* counted
Quiet(h) ==
    \/ pc[h] \in {"loop", "check_exit", "done"}
    \/ pc[h] \in {"inner", "get", "flush"} /\ entries[h] = <<>>

\* the number of records taken off the queue of handler h so far
Dequeued(h) == Len(accepted[h]) - Len(log_queue[h])

\* C22: every record taken off the queue is counted exactly once, as sent or
\* as failed according to the result of its batch: whenever no batch is
\* pending or in flight, logs_sent + logs_failed is the number of records
\* dequeued; when every delivery has failed and the queue is empty,
\* logs_failed is the number of records enqueued and logs_sent is 0; and no
\* exception has reached a caller.
C22_EveryDequeuedCountedOnce ==
    /\ ~emit_raised
    /\ \A h \in HandlerIds :
          Quiet(h) =>
            /\ logs_sent[h] + logs_failed[h] = Dequeued(h)
            /\ logs_sent[h] = SizeOfResults(h, Len(results[h]), TRUE)
            /\ logs_failed[h] = SizeOfResults(h, Len(results[h]), FALSE)
            /\ ( /\ log_queue[h] = <<>>
                 /\ \A i \in 1..Len(results[h]) : ~results[h][i] )
               => (logs_failed[h] = Len(accepted[h]) /\ logs_sent[h] = 0)

\* the sink is reachable and has failed every request: all MaxEvents records
\* were dequeued, in more than one batch, and counted as failed
C22_Witness ==
    /\ requests_installed
    /\ Quiet(1)
    /\ ~shutdown_flag[1]
    /\ log_queue[1] = <<>>
    /\ Len(accepted[1]) = MaxEvents
    /\ Len(results[1]) >= 2
    /\ logs_failed[1] = MaxEvents
    /\ logs_sent[1] = 0

\* ----------------------------------------------------------------- C23 --
\* C23: the delivery attempts of one handler are strictly sequential.  A
\* batch is handed to the delivery call, and a request issued, only when the
\* result of every earlier batch has been recorded, one at a time and by the
\* worker, in its loop or in its final flush; a step of a caller of
\* shutdown hands over and posts nothing.
C23_DeliveriesSequential ==
    [][\A h \in HandlerIds :
         /\ (submitted'[h] # submitted[h] \/ posted'[h] # posted[h])
            => /\ Len(results[h]) = Len(submitted[h])
               /\ Len(submitted'[h]) = Len(submitted[h]) + 1
               /\ Len(posted'[h]) <= Len(posted[h]) + 1
               /\ pc[h] \in {"inner", "get", "flush"}
               /\ pc'[h] \in {"post", "flush_post"}
         /\ (sd_pc'[h] # sd_pc[h] \/ sd2_pc'[h] # sd2_pc[h])
            => (submitted'[h] = submitted[h] /\ posted'[h] = posted[h])
         /\ Len(submitted'[h]) - Len(results'[h]) \in {0, 1}]_vars

\* the final flush is in flight after a batch of the loop whose result was
\* recorded, while the caller of shutdown waits in its join
C23_Witness ==
    /\ pc[1] = "flush_post"
    /\ sd_pc[1] = "join"
    /\ Len(submitted[1]) = 2
    /\ Len(results[1]) = 1
    /\ Len(posted[1]) = 2

\* ----------------------------------------------------------------- C24 --
\* C24: the sent and failed counters of a handler are cumulative: no step
\* of emit, of the worker (loop and flush), of shutdown or of the clock
\* decreases logs_sent or logs_failed.
C24_CountersMonotonic ==
    [][\A h \in HandlerIds :
         /\ logs_sent'[h] >= logs_sent[h]
         /\ logs_failed'[h] >= logs_failed[h]]_vars

\* a failed batch, then a delivered one, then the delivered final flush:
\* both counters have grown and the worker has stopped
C24_Witness ==
    /\ pc[1] = "done"
    /\ results[1] = <<FALSE, TRUE, TRUE>>
    /\ logs_failed[1] >= 1
    /\ logs_sent[1] >= 2

\* ----------------------------------------------------------------- C25 --
\* C25: every stream object of every payload posted consists of exactly the
\* labels job, application, level and logger under "stream" and one
\* [timestamp string, message] pair under "values", with no other key: it
\* equals the formatter's output for its record.
C25_StreamObjectIsFormatterOutput ==
    \A h \in HandlerIds : \A i \in 1..Len(posted[h]) :
        LET streams == Payload(posted[h][i]).streams IN
        \A j \in 1..Len(streams) :
            /\ DOMAIN streams[j] = {"stream", "values"}
            /\ DOMAIN streams[j].stream =
                  {"job", "application", "level", "logger"}
            /\ Len(streams[j].values) = 1
            /\ streams[j] = format_log_entry(posted[h][i][j])

\* ----------------------------------------------------------------- C26 --
RECURSIVE SumOver(_, _)
\* the sum of f[x] for x in the finite set S
SumOver(f, S) ==
    IF S = {} THEN 0
    ELSE LET x == CHOOSE y \in S : TRUE IN f[x] + SumOver(f, S \ {x})

\* C26: the metrics mirror the handlers' counters after every batch, the
\* final flush included: loki_logs_sent_total summed over its labels is the
\* number of records counted as sent, and loki_logs_failed_total is the
\* number counted as failed.
C26_MetricsMirrorCounters ==
    /\ SumOver(loki_logs_sent_total, Labels) = SumOver(logs_sent, HandlerIds)
    /\ loki_logs_failed_total = SumOver(logs_failed, HandlerIds)

\* ----------------------------------------------------------------- C27 --
\* the i-th delivery of handler h was its first successful one
FirstSuccess(h, i) ==
    results[h][i] /\ \A j \in 1..(i - 1) : ~results[h][j]

\* C27: a progress notice is logged after a delivery exactly when the
\* delivery succeeded and either it is the handler's first successful one or
\* the cumulative sent count has reached a multiple of ProgressEvery (10, the
\* batch size of the application).
C27_ProgressNoticeThrottled ==
    \A h \in HandlerIds : \A i \in 1..Len(notices[h]) :
        notices[h][i] <=>
            /\ results[h][i]
            /\ \/ FirstSuccess(h, i)
               \/ SizeOfResults(h, i, TRUE) % ProgressEvery = 0

C29_WorkerStopsOnlyOnShutdown ==
    \A h \in HandlerIds :
        pc[h] \in {"flush", "flush_post", "flush_sent", "done"}
            => shutdown_flag[h]

\* an iteration raised after a successful delivery (no progress notice was
\* logged for it) and the loop has since delivered another batch, with no
\* shutdown requested
C29_Witness ==
    \E h \in HandlerIds :
        /\ ~shutdown_flag[h]
        /\ \E i \in 1..Len(results[h]) :
             /\ results[h][i] /\ ~notices[h][i]
             /\ i < Len(results[h])

\* ----------------------------------------------------------------- C30 --
\* C30: every call of configure_logging returns (True, h), h being the
\* handler it has just constructed, when Loki is enabled with a url and a
\* job, and (False, None) otherwise; it never returns a handler of an
\* earlier call.
C30_ConfigureReturnsOwnHandler ==
    \A i \in 1..Len(configure_calls) :
        LET c == configure_calls[i] IN
            IF c.wanted
            THEN c.created # 0 /\ c.result = <<TRUE, c.created>>
            ELSE c.result = <<FALSE, 0>>

=============================================================================
